---------------------------- MODULE Spec2Model ----------------------------
(***************************************************************************)
(* State-machine model of the concurrent batch email dispatcher of          *)
(* send_emails_with_attachments.py: mapping-file reading, attachment        *)
(* pre-flight verification, the thread pool, the thread-local SMTP          *)
(* connection, the send retry loop, the should_exit flag and the result     *)
(* loop with its summary and failed-rows report.                            *)
(*                                                                         *)
(* Python lists are 0-based, TLA+ sequences 1-based: the model's            *)
(* row_index k stands for the code's index k-1.                             *)
(***************************************************************************)
EXTENDS Integers, Sequences, FiniteSets, TLC

(* ------------------------------ constants ------------------------------ *)

MAX_RETRIES == 3

CONNECTION_REFRESH_COUNT == 20

(* ------------------------------- bounds -------------------------------- *)

\* rows of the mapping file, pool threads and injected network failures of Spec
MaxRows == 2

MaxThreads == 2

MaxFaults == 2

\* SpecSerial, one thread: a long run of RefreshRows rows with RefreshFaults
\* injected failures, and runs of up to SerialRows rows with SerialFaults
RefreshRows == 21

RefreshFaults == 1

SerialRows == 2

SerialFaults == 4

\* rows, file names per row and injected failures of SpecPreflight (one thread)
PreflightRows == 2

PreflightFaults == 1
\* the specification with fairness: rows of its concurrent runs, and failures of
\* its one-task runs, enough for every connection loop of a task to be exhausted
LiveRows == 2
LiveFaults == 9

(* ------------------------------- helpers ------------------------------- *)

Names == {"a.pdf", "b.pdf"}

\* no session: hasattr(thread_local, "smtp") is false
NoSession == <<0, 0>>

\* no counter: hasattr(thread_local, "email_count") is false
NoCount == -1

Range(s) == {s[i] : i \in DOMAIN s}

RECURSIVE SeqSum(_)
SeqSum(s) == IF s = <<>> THEN 0 ELSE Head(s) + SeqSum(Tail(s))

(* --------------------------- the program state -------------------------- *)

VARIABLES
  \* inputs and configuration
  rows,            \* the mapping file's data rows: [id, email_ok, files]
  disk,            \* the attachment names that are files of input_directory
  max_threads,     \* config max_threads
  test_mode,       \* config test_mode
  faults,          \* network failures the environment may still inject
  signals,         \* SIGINT/SIGTERM deliveries the environment may still make
  \* the signal flag
  should_exit,
  \* main thread
  mpc,             \* position of main()
  email_tasks, original_rows,
  vi,              \* enumerate index of the verification loop
  found_files, not_found_count, missing_attachments, isfile_calls,
  processing_tasks,
  pool_started,
  si,              \* next task of the submit loop
  futures,         \* the submitted futures, as task numbers
  queue,           \* the executor's work queue
  fstate, fresult, \* each future's state and result
  completed,       \* futures in the order they finished
  ci,              \* futures the result loop has consumed
  success_count, skipped_count, failed_rows,
  success_idx, failed_idx,   \* the row_index of each counted result, in order
  report,          \* rows written by write_failed_report, <<>> when none
  report_written,
  unprocessed_emails,
  raised,          \* an exception reached main()'s except clause
  exit_code,       \* -1 while running
  \* worker threads
  nthreads,        \* threads the executor has started
  wpc, wjob,       \* each thread's position and current task
  retries,         \* send_email's retries
  cretries,        \* get_smtp_connection's retries
  ctx,             \* which call of get_smtp_connection is running
  smtp,            \* send_email's local smtp
  entered_flag,    \* should_exit when the thread entered its current position
  \* thread-local storage and sessions
  tl_smtp, tl_count,
  tl_sends,        \* successful sends on the session held in the slot
  nsess,           \* sessions each thread has created
  open,            \* sessions that are connected
  \* per-task observation
  begun_after_flag,
  send_att, conn_att, sleeps,
  send_after, conn_after, sleep_after,
  sent_ok,         \* successful transmissions of each task
  attachment_errors  \* len(attachment_errors) of each task's message

inputVars == <<rows, disk, max_threads, test_mode>>

mainVars == <<mpc, email_tasks, original_rows, vi, found_files, not_found_count,
              missing_attachments, isfile_calls, processing_tasks, pool_started,
              si, futures, ci, success_count, skipped_count, failed_rows,
              success_idx, failed_idx, report, report_written,
              unprocessed_emails, raised, exit_code>>

poolVars == <<queue, fstate, fresult, completed, nthreads>>

workerVars == <<wpc, wjob, retries, cretries, ctx, smtp, entered_flag>>

connVars == <<tl_smtp, tl_count, tl_sends, nsess, open>>

obsVars == <<begun_after_flag, send_att, conn_att, sleeps, send_after,
             conn_after, sleep_after, sent_ok>>

vars == <<inputVars, faults, signals, should_exit, mainVars, poolVars, workerVars,
          connVars, obsVars, attachment_errors>>

(* ------------------------------- inputs -------------------------------- *)

\* the data rows of a mapping file of n rows whose cells come from kinds
RowsOf(n, kinds) ==
  { [i \in 1..n |-> [id |-> i, email_ok |-> k[i].email_ok, files |-> k[i].files]] :
      k \in [1..n -> kinds] }

PlainKinds == { [email_ok |-> ok, files |-> <<>>] : ok \in BOOLEAN }

FileKinds ==
  { [email_ok |-> ok, files |-> f] :
      ok \in BOOLEAN,
      f \in {<<>>, <<"a.pdf">>, <<"b.pdf">>, <<"a.pdf", "b.pdf">>, <<"a.pdf", "a.pdf">>} }

\* Spec: up to MaxRows rows, addresses valid or not, one optional attachment
SpecInputs ==
  { [rows |-> r, disk |-> {}, max_threads |-> t, test_mode |-> tm,
     faults |-> MaxFaults, signals |-> 1] :
      r \in UNION { RowsOf(n, PlainKinds \cup {[email_ok |-> TRUE, files |-> <<"a.pdf">>]}) :
                      n \in 1..MaxRows },
      t \in 1..MaxThreads,
      tm \in BOOLEAN }

\* SpecPreflight: attachment lists of every shape against every directory
PreflightInputs ==
  { [rows |-> r, disk |-> d, max_threads |-> 1, test_mode |-> tm,
     faults |-> PreflightFaults, signals |-> 1] :
      r \in UNION { RowsOf(n, FileKinds) : n \in 1..PreflightRows },
      d \in SUBSET Names,
      tm \in BOOLEAN }

\* SpecSerial: one thread; a run long enough for a session to reach the refresh
\* count, without signals, and short runs with a signal and more failures
SerialInputs ==
  { [rows |-> r, disk |-> {}, max_threads |-> 1, test_mode |-> FALSE,
     faults |-> RefreshFaults, signals |-> 0] :
      r \in RowsOf(RefreshRows, {[email_ok |-> TRUE, files |-> <<>>]}) }
  \cup
  { [rows |-> r, disk |-> {}, max_threads |-> 1, test_mode |-> tm,
     faults |-> SerialFaults, signals |-> 1] :
      r \in UNION { RowsOf(n, PlainKinds \cup {[email_ok |-> TRUE, files |-> <<"a.pdf">>]}) :
                      n \in 1..SerialRows },
      tm \in BOOLEAN }

\* SpecLive: one task against a server that may fail it at every step, and
\* concurrent runs with one failure
LiveInputs ==
  { [rows |-> r, disk |-> {}, max_threads |-> 1, test_mode |-> FALSE,
     faults |-> LiveFaults, signals |-> 1] :
      r \in RowsOf(1, {[email_ok |-> TRUE, files |-> <<>>]}) }
  \cup
  { [rows |-> r, disk |-> {}, max_threads |-> t, test_mode |-> FALSE,
     faults |-> 1, signals |-> 1] :
      r \in UNION { RowsOf(n, PlainKinds) : n \in 1..LiveRows },
      t \in 1..MaxThreads }

Threads == 1..MaxThreads

\* thread-local slots: one per pool thread, and slot 0 of the main thread
Slots == 0..MaxThreads

TaskIds(r) == 1..Len(r)

InitWith(inp) ==
  /\ rows = inp.rows
  /\ disk = inp.disk
  /\ max_threads = inp.max_threads
  /\ test_mode = inp.test_mode
  /\ faults = inp.faults
  /\ signals = inp.signals
  /\ should_exit = FALSE
  /\ mpc = "read_mapping"
  /\ email_tasks = <<>>
  /\ original_rows = <<>>
  /\ vi = 1
  /\ found_files = [n \in Names |-> "unknown"]
  /\ not_found_count = 0
  /\ missing_attachments = <<>>
  /\ isfile_calls = [n \in Names |-> 0]
  /\ processing_tasks = <<>>
  /\ pool_started = FALSE
  /\ si = 1
  /\ futures = <<>>
  /\ queue = <<>>
  /\ fstate = [j \in TaskIds(inp.rows) |-> "none"]
  /\ fresult = [j \in TaskIds(inp.rows) |-> "none"]
  /\ completed = <<>>
  /\ ci = 0
  /\ success_count = 0
  /\ skipped_count = 0
  /\ failed_rows = <<>>
  /\ success_idx = <<>>
  /\ failed_idx = <<>>
  /\ report = <<>>
  /\ report_written = FALSE
  /\ unprocessed_emails = 0
  /\ raised = FALSE
  /\ exit_code = -1
  /\ nthreads = 0
  /\ wpc = [w \in Threads |-> "idle"]
  /\ wjob = [w \in Threads |-> 0]
  /\ retries = [w \in Threads |-> 0]
  /\ cretries = [w \in Threads |-> 0]
  /\ ctx = [w \in Threads |-> "send"]
  /\ smtp = [w \in Threads |-> NoSession]
  /\ entered_flag = [w \in Threads |-> FALSE]
  /\ tl_smtp = [k \in Slots |-> NoSession]
  /\ tl_count = [k \in Slots |-> NoCount]
  /\ tl_sends = [k \in Slots |-> 0]
  /\ nsess = [w \in Threads |-> 0]
  /\ open = {}
  /\ begun_after_flag = [j \in TaskIds(inp.rows) |-> FALSE]
  /\ send_att = [j \in TaskIds(inp.rows) |-> 0]
  /\ conn_att = [j \in TaskIds(inp.rows) |-> 0]
  /\ sleeps = [j \in TaskIds(inp.rows) |-> 0]
  /\ send_after = [j \in TaskIds(inp.rows) |-> 0]
  /\ conn_after = [j \in TaskIds(inp.rows) |-> 0]
  /\ sleep_after = [j \in TaskIds(inp.rows) |-> 0]
  /\ sent_ok = [j \in TaskIds(inp.rows) |-> 0]
  /\ attachment_errors = [j \in TaskIds(inp.rows) |-> 0]

Init == \E inp \in SpecInputs : InitWith(inp)

InitPreflight == \E inp \in PreflightInputs : InitWith(inp)

InitSerial == \E inp \in SerialInputs : InitWith(inp)

InitLive == \E inp \in LiveInputs : InitWith(inp)


(* --------------------------- read_mapping_file -------------------------- *)

\* a reader that takes every address for usable
ValidEmailAny(row) == TRUE

\* the address test of line 337: a cell that is empty or has no '@' is skipped
ValidEmail(row) == row.email_ok

\* rows -> (email_tasks, original_rows): every row is stored, a row with a usable
\* address becomes one (email, files) task; the row's id stands for its address
RECURSIVE EmailTasksOf(_)
EmailTasksOf(rs) ==
  IF rs = <<>> THEN <<>>
  ELSE IF ValidEmail(Head(rs))
       THEN <<[email |-> Head(rs).id, files |-> Head(rs).files]>> \o EmailTasksOf(Tail(rs))
       ELSE EmailTasksOf(Tail(rs))

read_mapping_file(rs) == [email_tasks |-> EmailTasksOf(rs), original_rows |-> rs]

ReadMapping ==
  /\ mpc = "read_mapping"
  /\ LET r == read_mapping_file(rows) IN
       /\ email_tasks' = r.email_tasks
       /\ original_rows' = r.original_rows
       /\ IF r.email_tasks = <<>>
          THEN /\ raised' = TRUE          \* "No valid mappings found in mapping file"
               /\ mpc' = "finally"
          ELSE /\ raised' = FALSE
               /\ mpc' = "verify"
  /\ UNCHANGED <<inputVars, faults, signals, should_exit, vi, found_files, not_found_count,
                 missing_attachments, isfile_calls, processing_tasks, pool_started,
                 si, futures, ci, success_count, skipped_count, failed_rows,
                 success_idx, failed_idx, report, report_written,
                 unprocessed_emails, exit_code, poolVars, workerVars, connVars,
                 obsVars>>
  /\ UNCHANGED attachment_errors

(* ------------------------ attachment verification ----------------------- *)

\* a lookup that takes every name for a file
IsFileAlways(name) == TRUE

\* os.path.isfile(os.path.join(input_dir, attachment_file))
IsFile(name) == name \in disk

\* a cache that is never hit
KnownNever(found, f) == FALSE

\* "if attachment_file in found_files:" (line 656)
Known(found, f) == found[f] # "unknown"

\* the inner loop of lines 651-665 over one task's files, from the state st =
\* [found, invalid, nf, calls]: a name already in found_files is not looked up again
RECURSIVE CheckFiles(_, _)
CheckFiles(files, st) ==
  IF files = <<>> THEN st
  ELSE LET f == Head(files) IN
       CheckFiles(Tail(files),
         IF Known(st.found, f)
         THEN IF st.found[f] = "no"
              THEN [st EXCEPT !.invalid = Append(@, f)]
              ELSE st
         ELSE IF IsFile(f)
              THEN [st EXCEPT !.found[f] = "yes", !.calls[f] = @ + 1]
              ELSE [st EXCEPT !.found[f] = "no", !.calls[f] = @ + 1,
                              !.invalid = Append(@, f), !.nf = @ + 1])

\* one iteration of the verification loop (lines 637-670)
VerifyTask ==
  /\ mpc = "verify"
  /\ vi <= Len(email_tasks)
  /\ IF should_exit
     THEN /\ mpc' = "finally"             \* "Verification interrupted by user": return
          /\ UNCHANGED <<vi, found_files, not_found_count, missing_attachments,
                         isfile_calls>>
     ELSE LET t == email_tasks[vi]
              st == CheckFiles(t.files, [found |-> found_files, invalid |-> <<>>,
                                         nf |-> not_found_count, calls |-> isfile_calls])
          IN /\ found_files' = st.found
             /\ not_found_count' = st.nf
             /\ isfile_calls' = st.calls
             /\ missing_attachments' =
                  IF st.invalid # <<>>
                  THEN Append(missing_attachments,
                              [row |-> vi, email |-> t.email, files |-> st.invalid])
                  ELSE missing_attachments
             /\ vi' = vi + 1
             /\ mpc' = "verify"
  /\ UNCHANGED <<inputVars, faults, signals, should_exit, email_tasks, original_rows,
                 processing_tasks, pool_started, si, futures, ci, success_count,
                 skipped_count, failed_rows, success_idx, failed_idx, report,
                 report_written, unprocessed_emails, raised, exit_code, poolVars,
                 workerVars, connVars, obsVars>>
  /\ UNCHANGED attachment_errors

\* lines 686-726: one processing task per email task, row_index = enumerate index
PrepareTasks(tasks) ==
  [k \in 1..Len(tasks) |->
     [email |-> tasks[k].email, paths |-> tasks[k].files, current_count |-> k,
      total_emails |-> Len(tasks), row_index |-> k]]

\* lines 672-729: abort on missing attachments, return on interrupt, else build the
\* processing tasks and enter the ThreadPoolExecutor block
VerifyDone ==
  /\ mpc = "verify"
  /\ vi > Len(email_tasks)
  /\ IF missing_attachments # <<>>
     THEN /\ raised' = TRUE               \* ValueError("Aborting: Found ... missing")
          /\ mpc' = "finally"
          /\ UNCHANGED <<processing_tasks, pool_started>>
     ELSE IF should_exit
     THEN /\ mpc' = "finally"             \* "interrupted by user before sending": return
          /\ UNCHANGED <<raised, processing_tasks, pool_started>>
     ELSE /\ processing_tasks' = PrepareTasks(email_tasks)
          /\ pool_started' = TRUE
          /\ mpc' = "submit"
          /\ UNCHANGED raised
  /\ UNCHANGED <<inputVars, faults, signals, should_exit, email_tasks, original_rows, vi,
                 found_files, not_found_count, missing_attachments, isfile_calls,
                 si, futures, ci, success_count, skipped_count, failed_rows,
                 success_idx, failed_idx, report, report_written,
                 unprocessed_emails, exit_code, poolVars, workerVars, connVars,
                 obsVars>>
  /\ UNCHANGED attachment_errors

(* ------------------------- submission and results ------------------------ *)

\* lines 738-745: executor.submit(process_email, task) unless interrupted
Submit ==
  /\ mpc = "submit"
  /\ si <= Len(processing_tasks)
  /\ ~should_exit
  /\ futures' = Append(futures, si)
  /\ queue' = Append(queue, si)
  /\ fstate' = [fstate EXCEPT ![si] = "pending"]
  /\ si' = si + 1
  /\ UNCHANGED <<inputVars, faults, signals, should_exit, mpc, email_tasks, original_rows, vi,
                 found_files, not_found_count, missing_attachments, isfile_calls,
                 processing_tasks, pool_started, ci, success_count, skipped_count,
                 failed_rows, success_idx, failed_idx, report, report_written,
                 unprocessed_emails, raised, exit_code, fresult, completed, nthreads,
                 workerVars, connVars, obsVars>>
  /\ UNCHANGED attachment_errors

\* the submit loop ends: every task submitted, or the break of line 741
SubmitEnd ==
  /\ mpc = "submit"
  /\ si > Len(processing_tasks) \/ should_exit
  /\ mpc' = "collect"
  /\ UNCHANGED <<inputVars, faults, signals, should_exit, email_tasks, original_rows, vi,
                 found_files, not_found_count, missing_attachments, isfile_calls,
                 processing_tasks, pool_started, si, futures, ci, success_count,
                 skipped_count, failed_rows, success_idx, failed_idx, report,
                 report_written, unprocessed_emails, raised, exit_code, poolVars,
                 workerVars, connVars, obsVars>>
  /\ UNCHANGED attachment_errors

\* every future mapped to the index of the last task
future_to_index_last(j) == processing_tasks[Len(processing_tasks)].row_index

\* future_to_index[future] = task[6]
future_to_index(j) == processing_tasks[j].row_index

\* the row appended for a failed future: original_rows[row_index]
FailedRow(row_index) == original_rows[row_index]

\* a count that takes everything but a returned False for a success
SucceededUnlessFalse(res) == res # "false"

\* "success, email_time, _ = future.result()" then "if success:" inside the try:
\* a raised exception goes to the except clause
Succeeded(res) == res = "true"

\* one iteration of the as_completed loop (lines 749-780): both branches of the
\* should_exit test count a finished future the same way; a result of False and an
\* exception both add to skipped_count and failed_rows
Collect ==
  /\ mpc = "collect"
  /\ ci < Len(completed)
  /\ LET j == completed[ci + 1]
         row_index == future_to_index(j)
     IN IF Succeeded(fresult[j])
        THEN /\ success_count' = success_count + 1
             /\ success_idx' = Append(success_idx, row_index)
             /\ UNCHANGED <<skipped_count, failed_rows, failed_idx>>
        ELSE /\ skipped_count' = skipped_count + 1
             /\ failed_rows' = Append(failed_rows, FailedRow(row_index))
             /\ failed_idx' = Append(failed_idx, row_index)
             /\ UNCHANGED <<success_count, success_idx>>
  /\ ci' = ci + 1
  /\ UNCHANGED <<inputVars, faults, signals, should_exit, mpc, email_tasks, original_rows, vi,
                 found_files, not_found_count, missing_attachments, isfile_calls,
                 processing_tasks, pool_started, si, futures, report, report_written,
                 unprocessed_emails, raised, exit_code, poolVars, workerVars,
                 connVars, obsVars>>
  /\ UNCHANGED attachment_errors

\* a result loop that leaves out the last future
AllYieldedButLast == ci + 1 >= Len(futures)

\* a result loop that stops as soon as the flag is set
AllYieldedOrFlag == ci = Len(futures) \/ should_exit

\* "for future in as_completed(futures)" is exhausted: every submitted future has
\* finished and has been yielded
AllYielded == ci = Len(futures)

\* as_completed is exhausted once every submitted future has been yielded; then
\* lines 786-796 cancel what is not done and the with block joins the pool
CollectEnd ==
  /\ mpc = "collect"
  /\ AllYielded
  /\ fstate' = [j \in DOMAIN fstate |->
                  IF should_exit /\ j \in Range(futures) /\ fstate[j] # "done"
                  THEN "cancelled" ELSE fstate[j]]
  /\ mpc' = "report"
  /\ UNCHANGED <<inputVars, faults, signals, should_exit, email_tasks, original_rows, vi,
                 found_files, not_found_count, missing_attachments, isfile_calls,
                 processing_tasks, pool_started, si, futures, ci, success_count,
                 skipped_count, failed_rows, success_idx, failed_idx, report,
                 report_written, unprocessed_emails, raised, exit_code, queue,
                 fresult, completed, nthreads, workerVars, connVars, obsVars>>
  /\ UNCHANGED attachment_errors

\* a report written whether or not a row failed
write_failed_report_always(failed) == [written |-> TRUE, rows |-> failed]

\* write_failed_report: no file when there are no failed rows
write_failed_report(failed) == [written |-> failed # <<>>, rows |-> failed]

\* lines 798-828: the failed-rows report and the summary
Report ==
  /\ mpc = "report"
  /\ LET r == write_failed_report(failed_rows) IN
       /\ report_written' = r.written
       /\ report' = IF r.written THEN r.rows ELSE <<>>
  /\ unprocessed_emails' = Len(email_tasks) - (success_count + skipped_count)
  /\ mpc' = "finally"
  /\ UNCHANGED <<inputVars, faults, signals, should_exit, email_tasks, original_rows, vi,
                 found_files, not_found_count, missing_attachments, isfile_calls,
                 processing_tasks, pool_started, si, futures, ci, success_count,
                 skipped_count, failed_rows, success_idx, failed_idx, raised,
                 exit_code, poolVars, workerVars, connVars, obsVars>>
  /\ UNCHANGED attachment_errors

\* thread_local of the thread that runs the code: main() runs on slot 0
MainSlot == 0

\* lines 830-852: except -> sys.exit(1); finally quits the main thread's own
\* thread_local.smtp, then sys.exit(0) if should_exit, sys.exit(1) if not every
\* email was counted
Finally ==
  /\ mpc = "finally"
  /\ open' = IF tl_smtp[MainSlot] # NoSession THEN open \ {tl_smtp[MainSlot]} ELSE open
  /\ exit_code' =
       IF should_exit THEN 0
       ELSE IF raised THEN 1
       ELSE IF success_count + skipped_count < Len(email_tasks) THEN 1
       ELSE 0
  /\ mpc' = "exited"
  /\ UNCHANGED <<inputVars, faults, signals, should_exit, email_tasks, original_rows, vi,
                 found_files, not_found_count, missing_attachments, isfile_calls,
                 processing_tasks, pool_started, si, futures, ci, success_count,
                 skipped_count, failed_rows, success_idx, failed_idx, report,
                 report_written, unprocessed_emails, raised, poolVars, workerVars,
                 tl_smtp, tl_count, tl_sends, nsess, obsVars>>
  /\ UNCHANGED attachment_errors

\* signal_handler (lines 101-108): SIGINT or SIGTERM sets the flag
SignalHandler ==
  /\ mpc # "exited"
  /\ signals > 0
  /\ signals' = signals - 1
  /\ should_exit' = TRUE
  /\ UNCHANGED <<inputVars, faults, mainVars, poolVars, workerVars, connVars, obsVars>>
  /\ UNCHANGED attachment_errors

(* ----------------------------- worker threads --------------------------- *)

\* one module-level slot shared by every pool thread
ThreadLocalShared(w) == 1

\* thread_local = threading.local(): the slot a thread's attribute access reaches
ThreadLocal(w) == w

\* a test that never sees the flag
ShouldExitNever == FALSE

\* the tests "if should_exit:" of process_email and send_email
ShouldExit == should_exit

\* one attempt too many, and one too few
RetriesLeftOneMore(r) == r <= MAX_RETRIES

RetriesLeftOneLess(r) == r < MAX_RETRIES - 1

\* "retries < MAX_RETRIES": the while test of line 497 and the test of line 535
RetriesLeft(r) == r < MAX_RETRIES

\* a refresh one acquisition late
NeedsRefreshLate(count) == count > CONNECTION_REFRESH_COUNT

\* "thread_local.email_count >= CONNECTION_REFRESH_COUNT" (line 209)
NeedsRefresh(count) == count >= CONNECTION_REFRESH_COUNT

Bump(f, j, cond) == IF cond THEN [f EXCEPT ![j] = @ + 1] ELSE f

\* process_email / send_email return res (or raise, res = "exc"): the future is
\* finished and the thread goes back to the work queue
Finish(w, j, res) ==
  /\ fresult' = [fresult EXCEPT ![j] = res]
  /\ fstate' = [fstate EXCEPT ![j] = "done"]
  /\ completed' = Append(completed, j)
  /\ wpc' = [wpc EXCEPT ![w] = "idle"]
  /\ wjob' = [wjob EXCEPT ![w] = 0]
  /\ retries' = [retries EXCEPT ![w] = 0]
  /\ cretries' = [cretries EXCEPT ![w] = 0]
  /\ ctx' = [ctx EXCEPT ![w] = "send"]
  /\ smtp' = [smtp EXCEPT ![w] = NoSession]
  /\ entered_flag' = [entered_flag EXCEPT ![w] = FALSE]

\* the thread moves to position pc of the same call
Goto(w, pc) ==
  /\ wpc' = [wpc EXCEPT ![w] = pc]
  /\ entered_flag' = [entered_flag EXCEPT ![w] = should_exit]
  /\ UNCHANGED <<fresult, fstate, completed, wjob>>

\* a work queue that hands out an item and keeps it
DequeueKeep(q) == q

\* the pool's work queue after a thread has taken its head: each work item
\* submitted at line 743 is handed to one thread, once
Dequeue(q) == Tail(q)

\* a pool whose threads never take a work item
PoolThreadNone(w) == FALSE

\* a pool that starts a thread for every queued item
PoolThreadUnbounded(w) == TRUE

\* ThreadPoolExecutor(max_workers=max_threads): the pool runs threads 1..max_threads
PoolThread(w) == w <= max_threads

\* a pool thread takes the next work item and runs process_email up to its first
\* test (lines 549-557); threads are started in order, up to max_threads
TakeJob(w) ==
  /\ wpc[w] = "idle"
  /\ queue # <<>>
  /\ PoolThread(w)
  /\ w <= nthreads + 1
  /\ nthreads' = IF w > nthreads THEN w ELSE nthreads
  /\ queue' = Dequeue(queue)
  /\ LET j == Head(queue) IN
       /\ begun_after_flag' = [begun_after_flag EXCEPT ![j] = should_exit]
       /\ IF ShouldExit
          THEN Finish(w, j, "false")      \* return False, 0, args[6]
          ELSE /\ fstate' = [fstate EXCEPT ![j] = "running"]
               /\ wjob' = [wjob EXCEPT ![w] = j]
               /\ wpc' = [wpc EXCEPT ![w] = "send_email"]
               /\ entered_flag' = [entered_flag EXCEPT ![w] = should_exit]
               /\ UNCHANGED <<fresult, completed, retries, cretries, ctx, smtp>>
  /\ UNCHANGED <<inputVars, faults, signals, should_exit, mainVars, connVars, send_att,
                 conn_att, sleeps, send_after, conn_after, sleep_after, sent_ok>>
  /\ UNCHANGED attachment_errors

\* the attachment loop of lines 431-467: opening or encoding a file may raise for
\* any of the task's files, as far as the environment's faults go; the except
\* clause appends to attachment_errors and the loop goes on to the next file
AttachErrors(paths) == 0..(IF Len(paths) < faults THEN Len(paths) ELSE faults)

\* a run that ignores the setting
TestModeOff == FALSE

\* "if test_mode:" (line 472), from config['test_mode']
TestMode == test_mode

\* send_email up to its retry loop (lines 407-496): the interrupt tests of lines
\* 413, 435 and 474, the message, and the test-mode return
SendEmailBegin(w) ==
  /\ wpc[w] = "send_email"
  /\ IF ShouldExit
     THEN /\ Finish(w, wjob[w], "false")
          /\ UNCHANGED <<attachment_errors, faults>>
     ELSE /\ \E n \in AttachErrors(processing_tasks[wjob[w]].paths) :
               /\ attachment_errors' = [attachment_errors EXCEPT ![wjob[w]] = n]
               /\ faults' = faults - n
          /\ IF TestMode
             THEN Finish(w, wjob[w], "true")      \* "Would send email to ..."
             ELSE /\ Goto(w, "retry_loop")
                  /\ retries' = [retries EXCEPT ![w] = 0]
                  /\ UNCHANGED <<cretries, ctx, smtp>>
  /\ UNCHANGED <<inputVars, signals, should_exit, mainVars, queue, nthreads, connVars,
                 obsVars>>

\* a replacement that leaves the old session connected
QuitNot(o, s) == o

\* thread_local.smtp.quit() (lines 162-166): the stored session, if there is one,
\* is no longer connected
Quit(o, s) == o \ {s}

\* get_smtp_connection up to its connection loop (lines 160-174 and 207-213), as
\* called by thread w with force_new = force from call site site: either the
\* stored session is returned, or the stored session is quit, email_count is
\* reset and the thread goes on to connect
AcquireEntry(w, force, site) ==
  LET k == ThreadLocal(w)
      create == /\ open' = Quit(open, tl_smtp[k])       \* quit() if hasattr
                /\ tl_count' = [tl_count EXCEPT ![k] = 0]
                /\ cretries' = [cretries EXCEPT ![w] = 0]
                /\ ctx' = [ctx EXCEPT ![w] = site]
                /\ Goto(w, "connect")
                /\ UNCHANGED <<tl_smtp, tl_sends, nsess, smtp>>
  IN IF force \/ tl_smtp[k] = NoSession \/ tl_count[k] = NoCount
     THEN create
     ELSE IF NeedsRefresh(tl_count[k] + 1)
     THEN create                          \* get_smtp_connection(force_new=True)
     ELSE /\ tl_count' = [tl_count EXCEPT ![k] = @ + 1]
          /\ smtp' = [smtp EXCEPT ![w] = tl_smtp[k]]
          /\ Goto(w, "send")
          /\ UNCHANGED <<tl_smtp, tl_sends, nsess, open, cretries, ctx>>

\* the head of the retry loop (lines 497-506): the while test (the function
\* returns None when it fails), the interrupt test, then
\* get_smtp_connection(smtp_config)
RetryLoop(w) ==
  /\ wpc[w] = "retry_loop"
  /\ IF ~RetriesLeft(retries[w]) \/ ShouldExit
     THEN /\ Finish(w, wjob[w], "false")
          /\ UNCHANGED connVars
     ELSE /\ AcquireEntry(w, FALSE, "send")
          /\ UNCHANGED retries
  /\ UNCHANGED <<inputVars, faults, signals, should_exit, mainVars, queue, nthreads, obsVars>>
  /\ UNCHANGED attachment_errors

\* a connection loop with one more pass
ConnRetriesLeftOneMore(r) == r <= MAX_RETRIES

\* "while retries < MAX_RETRIES:" of the connection loop (line 176)
ConnRetriesLeft(r) == r < MAX_RETRIES

\* one pass of the connection loop succeeds (lines 177-193): the new session is
\* stored and returned to the call site
ConnectOk(w) ==
  /\ wpc[w] = "connect"
  /\ LET k == ThreadLocal(w)
         j == wjob[w]
         s == <<w, nsess[w] + 1>>
     IN /\ nsess' = [nsess EXCEPT ![w] = @ + 1]
        /\ open' = open \cup {s}
        /\ tl_smtp' = [tl_smtp EXCEPT ![k] = s]
        /\ tl_sends' = [tl_sends EXCEPT ![k] = 0]
        /\ smtp' = [smtp EXCEPT ![w] = s]
        /\ conn_att' = Bump(conn_att, j, TRUE)
        /\ conn_after' = Bump(conn_after, j, entered_flag[w])
        /\ Goto(w, IF ctx[w] = "send" THEN "send" ELSE "retry_loop")
  /\ UNCHANGED <<inputVars, faults, signals, should_exit, mainVars, queue, nthreads, retries,
                 cretries, ctx, tl_count, begun_after_flag, send_att, sleeps,
                 send_after, sleep_after, sent_ok>>
  /\ UNCHANGED attachment_errors

\* one pass of the connection loop fails (lines 195-205): retries += 1 and the
\* backoff sleep; after MAX_RETRIES failures the exception is raised, which ends
\* the task when raised to line 506 and is swallowed at line 543
ConnectFail(w) ==
  /\ wpc[w] = "connect"
  /\ faults > 0
  /\ faults' = faults - 1
  /\ LET j == wjob[w] IN
       /\ conn_att' = Bump(conn_att, j, TRUE)
       /\ conn_after' = Bump(conn_after, j, entered_flag[w])
       /\ sleeps' = Bump(sleeps, j, TRUE)
       /\ sleep_after' = Bump(sleep_after, j, entered_flag[w])
       /\ IF ConnRetriesLeft(cretries[w] + 1)
          THEN /\ cretries' = [cretries EXCEPT ![w] = @ + 1]
               /\ Goto(w, "connect")
               /\ UNCHANGED <<retries, ctx, smtp>>
          ELSE IF ctx[w] = "send"
          THEN Finish(w, j, "exc")
          ELSE /\ cretries' = [cretries EXCEPT ![w] = @ + 1]
               /\ Goto(w, "retry_loop")
               /\ UNCHANGED <<retries, ctx, smtp>>
  /\ UNCHANGED <<inputVars, signals, should_exit, mainVars, queue, nthreads, connVars,
                 begun_after_flag, send_att, send_after, sent_ok>>
  /\ UNCHANGED attachment_errors

\* smtp.send_message(msg) succeeds (lines 507-523): return True
SendOk(w) ==
  /\ wpc[w] = "send"
  /\ smtp[w] \in open
  /\ LET k == ThreadLocal(w)
         j == wjob[w]
     IN /\ send_att' = Bump(send_att, j, TRUE)
        /\ send_after' = Bump(send_after, j, entered_flag[w])
        /\ sent_ok' = Bump(sent_ok, j, TRUE)
        /\ tl_sends' = [tl_sends EXCEPT ![k] = @ + 1]
        /\ Finish(w, j, "true")
  /\ UNCHANGED <<inputVars, faults, signals, should_exit, mainVars, queue, nthreads, tl_smtp,
                 tl_count, nsess, open, begun_after_flag, conn_att, sleeps,
                 conn_after, sleep_after>>
  /\ UNCHANGED attachment_errors

\* smtp.send_message(msg) raises (lines 525-547), as it always does on a session
\* that was quit: retries += 1, the interrupt test, then the backoff or return False
SendFail(w) ==
  /\ wpc[w] = "send"
  /\ smtp[w] \notin open \/ faults > 0
  /\ faults' = IF smtp[w] \in open THEN faults - 1 ELSE faults
  /\ LET j == wjob[w] IN
       /\ send_att' = Bump(send_att, j, TRUE)
       /\ send_after' = Bump(send_after, j, entered_flag[w])
       /\ IF ShouldExit \/ ~RetriesLeft(retries[w] + 1)
          THEN Finish(w, j, "false")
          ELSE /\ retries' = [retries EXCEPT ![w] = @ + 1]
               /\ Goto(w, "backoff")
               /\ UNCHANGED <<cretries, ctx, smtp>>
  /\ UNCHANGED <<inputVars, signals, should_exit, mainVars, queue, nthreads, connVars,
                 begun_after_flag, conn_att, sleeps, conn_after, sleep_after,
                 sent_ok>>
  /\ UNCHANGED attachment_errors

\* time.sleep(backoff_time), then get_smtp_connection(smtp_config, force_new=True)
\* (lines 536-542)
RetryBackoff(w) ==
  /\ wpc[w] = "backoff"
  /\ sleeps' = Bump(sleeps, wjob[w], TRUE)
  /\ sleep_after' = Bump(sleep_after, wjob[w], entered_flag[w])
  /\ AcquireEntry(w, TRUE, "retry")
  /\ UNCHANGED <<inputVars, faults, signals, should_exit, mainVars, queue, nthreads, retries,
                 begun_after_flag, send_att, conn_att, send_after, conn_after,
                 sent_ok>>
  /\ UNCHANGED attachment_errors

(* ---------------------------- specifications ---------------------------- *)

Main ==
  \/ ReadMapping
  \/ VerifyTask
  \/ VerifyDone
  \/ Submit
  \/ SubmitEnd
  \/ Collect
  \/ CollectEnd
  \/ Report
  \/ Finally

Worker(w) ==
  \/ TakeJob(w)
  \/ SendEmailBegin(w)
  \/ RetryLoop(w)
  \/ ConnectOk(w)
  \/ ConnectFail(w)
  \/ SendOk(w)
  \/ SendFail(w)
  \/ RetryBackoff(w)

Next == Main \/ SignalHandler \/ (\E w \in Threads : Worker(w))

Spec == Init /\ [][Next]_vars

SpecPreflight == InitPreflight /\ [][Next]_vars

SpecSerial == InitSerial /\ [][Next]_vars

\* the main thread and every pool thread keep running: each call they make returns
Fairness == WF_vars(Main) /\ \A w \in Threads : WF_vars(Worker(w))

SpecLive == InitLive /\ [][Next]_vars /\ Fairness

(* -------------------------------- claims -------------------------------- *)

Tasks == DOMAIN fstate

\* the row a task was created from: its address is that row's id
SourceRow(k) == rows[email_tasks[k].email]

\* some row with a usable address names an attachment that is not a file
InvalidBatch ==
  \E i \in DOMAIN rows :
     rows[i].email_ok /\ \E n \in Range(rows[i].files) : n \notin disk

\* C1: a batch in which a job references a missing attachment never starts the
\* pool: no future is submitted, no connection or send is attempted, no session
\* is opened and no failed-rows report is written; unless interrupted first, the
\* run ends in the abort
C1_PreflightGate ==
  InvalidBatch =>
    /\ ~pool_started
    /\ futures = <<>>
    /\ open = {}
    /\ \A j \in Tasks : send_att[j] = 0 /\ conn_att[j] = 0 /\ fstate[j] = "none"
    /\ ~report_written
    /\ mpc = "exited" => (raised \/ should_exit)

C1_Witness ==
  /\ InvalidBatch
  /\ mpc = "exited"
  /\ raised
  /\ ~should_exit
  /\ missing_attachments # <<>>
  /\ Len(email_tasks) > 1

C3_ManifestRows ==
  (mpc = "exited" /\ pool_started) =>
    /\ Len(report) = Len(failed_idx)
    /\ \A i \in DOMAIN report : report[i] = SourceRow(failed_idx[i])

\* C4: no task makes more than MAX_RETRIES send attempts
C4_BoundedRetry == \A j \in Tasks : send_att[j] <= MAX_RETRIES

C4_Witness ==
  \E j \in Tasks : send_att[j] = MAX_RETRIES /\ sent_ok[j] = 0 /\ fresult[j] = "false"

C6_NoNewJobAfterFlag ==
  \A j \in Tasks :
     begun_after_flag[j] =>
       /\ conn_att[j] = 0
       /\ send_att[j] = 0
       /\ fstate[j] = "done"
       /\ fresult[j] = "false"

C6_Witness ==
  \E j, i \in Tasks :
     /\ begun_after_flag[j] /\ fstate[j] = "done"
     /\ ~begun_after_flag[i] /\ send_att[i] > 0

\* C7 (as claimed): a task abandoned at an interrupt test before any send is
\* not counted as failed
C7_InterruptedNotFailed ==
  \A j \in Tasks : begun_after_flag[j] => j \notin Range(failed_idx)

\* C8 (as claimed): for each task, the operations a thread starts after the flag
\* is set are at most one send attempt with its connection attempt and one sleep
C8_CancellationLatency ==
  \A j \in Tasks : send_after[j] <= 1 /\ sleep_after[j] <= 1 /\ conn_after[j] <= 1

\* C9: a thread sends only on a session it created itself, two threads never
\* hold the same session, and a thread's slot holds a session of that thread
C9_ExclusiveOwnership ==
  /\ \A w \in Threads : smtp[w] # NoSession => smtp[w][1] = w
  /\ \A k \in Threads : tl_smtp[k] # NoSession => tl_smtp[k][1] = k
  /\ \A w1, w2 \in Threads :
        (w1 # w2 /\ smtp[w1] # NoSession) => smtp[w1] # smtp[w2]
  /\ tl_smtp[0] = NoSession

C9_Witness ==
  \E w1, w2 \in Threads :
     /\ w1 # w2
     /\ wpc[w1] = "send" /\ wpc[w2] = "send"
     /\ smtp[w1] \in open /\ smtp[w2] \in open

\* C10: an acquire by a thread whose session has had CONNECTION_REFRESH_COUNT
\* successful sends quits that session, resets the counter and goes on to connect;
\* a session returned by the connection loop is newly created, is the stored one,
\* and has counter 0 and no sends
C10_RefreshThreshold ==
  [][\A w \in Threads :
       /\ ( /\ wpc[w] = "retry_loop"
            /\ wpc'[w] \notin {"retry_loop", "idle"}
            /\ tl_sends[w] = CONNECTION_REFRESH_COUNT )
          => ( /\ wpc'[w] = "connect"
               /\ tl_smtp[w] \notin open'
               /\ tl_count'[w] = 0 )
       /\ (wpc[w] = "connect" /\ wpc'[w] = "send")
          => ( /\ smtp'[w] \notin open
               /\ smtp'[w] \in open'
               /\ smtp'[w] # tl_smtp[w]
               /\ tl_smtp'[w] = smtp'[w]
               /\ tl_count'[w] = 0
               /\ tl_sends'[w] = 0 )
       /\ tl_sends'[w] <= CONNECTION_REFRESH_COUNT
    ]_vars

\* the state after a threshold refresh: twenty tasks sent on the first session,
\* no send ever failed, and the thread is about to send on its second session
C10_Witness ==
  \E w \in Threads :
     /\ wpc[w] = "send"
     /\ smtp[w] = <<w, 2>>
     /\ tl_sends[w] = 0
     /\ tl_count[w] = 0
     /\ \A j \in Tasks : send_att[j] = sent_ok[j]
     /\ Cardinality({j \in Tasks : sent_ok[j] = 1}) = CONNECTION_REFRESH_COUNT

\* the tasks a pool thread is running
InFlight == {j \in Tasks : fstate[j] = "running"}

\* C11: at most max_threads tasks are in flight, every task in flight is held by
\* exactly one thread, a thread holds one task exactly when it is not idle, and a
\* thread takes a task only when it is idle and holds none
C11_MaxInFlight ==
  [][ /\ Cardinality(InFlight) <= max_threads
      /\ Cardinality({w \in Threads : wpc[w] = "send"}) <= max_threads
      /\ \A j \in InFlight : Cardinality({w \in Threads : wjob[w] = j}) = 1
      /\ \A w \in Threads : (wpc[w] # "idle") = (wjob[w] \in InFlight)
      /\ \A w \in Threads :
            (wjob'[w] # wjob[w] /\ wjob'[w] # 0) => (wpc[w] = "idle" /\ wjob[w] = 0)
    ]_vars

C11_Witness ==
  /\ max_threads = 2
  /\ Cardinality(InFlight) = 2
  /\ wjob[1] # wjob[2]
  /\ wpc[1] = "send" /\ wpc[2] = "backoff"

\* C12: the pool once started, main never raises; when the as_completed loop
\* has ended, every submitted task has finished with a result and is counted, as
\* a success if it returned True and as a failure otherwise, whatever happened to
\* the other tasks; and a run that ends with failures has written the report of
\* as many rows
C12_FailuresDoNotAbort ==
  /\ pool_started => ~raised
  /\ (pool_started /\ mpc \in {"report", "finally", "exited"}) =>
       \A j \in Range(futures) :
          /\ fstate[j] = "done"
          /\ fresult[j] \in {"true", "false", "exc"}
          /\ (fresult[j] = "true") = (j \in Range(success_idx))
          /\ (fresult[j] # "true") = (j \in Range(failed_idx))
  /\ (pool_started /\ mpc = "exited" /\ failed_idx # <<>>) =>
       (report_written /\ Len(report) = Len(failed_idx))

\* a task ended by an exception, the next one sent, and the run ended with both
C12_Witness ==
  /\ mpc = "exited"
  /\ ~should_exit
  /\ report_written
  /\ \E i, j \in Tasks :
        /\ fresult[i] = "exc" /\ fresult[j] = "true"
        /\ completed = <<i, j>>
        /\ success_count = 1 /\ skipped_count = 1

\* a task of an uninterrupted run that made send attempts, none of which succeeded
AllSendsFailed(j) == send_att[j] > 0 /\ sent_ok[j] = 0

\* C13 (as claimed): in a run that ends without an interrupt, a task whose every
\* send attempt failed has made MAX_RETRIES send attempts with a sleep before each
\* retry, is counted as failed, and the report holds the row it was created from;
\* when it is the only failed task the report is exactly that row
C13_RetryExhaustion ==
  (mpc = "exited" /\ ~should_exit) =>
    \A j \in Tasks :
       AllSendsFailed(j) =>
         /\ send_att[j] = MAX_RETRIES
         /\ sleeps[j] >= MAX_RETRIES - 1
         /\ j \in Range(failed_idx)
         /\ \E i \in DOMAIN report : report[i] = SourceRow(j)
         /\ (failed_idx = <<j>> => report = <<SourceRow(j)>>)

\* the tasks of the run: one for each row with a usable address
Jobs == 1..Len(email_tasks)

\* C14: when an uninterrupted run has ended and every task made one send attempt,
\* which succeeded, the summary counts every task as sent and none as failed, no
\* report is written and the exit status is 0
C14_AllSucceed ==
  ( /\ mpc = "exited" /\ pool_started /\ ~should_exit
    /\ \A j \in Jobs : send_att[j] = 1 /\ sent_ok[j] = 1 )
  => ( /\ success_count = Len(email_tasks)
       /\ skipped_count = 0
       /\ failed_rows = <<>>
       /\ ~report_written
       /\ report = <<>>
       /\ unprocessed_emails = 0
       /\ exit_code = 0 )

C14_Witness ==
  /\ mpc = "exited" /\ pool_started /\ ~should_exit
  /\ Len(email_tasks) = 2
  /\ email_tasks[1].files # <<>>
  /\ email_tasks[2].files = <<>>
  /\ \A j \in Jobs : send_att[j] = 1 /\ sent_ok[j] = 1
  /\ success_count = 2

\* C15: in test mode no session is ever opened and no task makes a connection
\* attempt or a send attempt; a task returns True unless it returned at an
\* interrupt test, and every task that returned True is counted as sent
C15_TestModeNoNetwork ==
  test_mode =>
    /\ open = {}
    /\ \A w \in Threads : nsess[w] = 0 /\ smtp[w] = NoSession
    /\ \A k \in Slots : tl_smtp[k] = NoSession
    /\ \A j \in Tasks :
          /\ conn_att[j] = 0 /\ send_att[j] = 0 /\ sleeps[j] = 0
          /\ fresult[j] # "exc"
          /\ fresult[j] = "false" => should_exit
          /\ (fresult[j] = "true" /\ mpc = "exited") => j \in Range(success_idx)
    /\ (mpc = "exited" /\ pool_started /\ ~should_exit) =>
          (success_count = Len(email_tasks) /\ skipped_count = 0)

C15_Witness ==
  /\ test_mode
  /\ mpc = "exited"
  /\ should_exit
  /\ \E i, j \in Tasks : fresult[i] = "true" /\ fresult[j] = "false"
  /\ success_count = 1

\* C16 (as claimed): a run in which main raised (no usable mapping row, or the
\* attachment verification failed) has made no send attempt and ends with a
\* non-zero exit status
C16_FatalExitNonZero ==
  (mpc = "exited" /\ raised) =>
    /\ \A j \in Tasks : send_att[j] = 0 /\ conn_att[j] = 0
    /\ exit_code # 0

\* the rows whose address is empty or has no '@', and the others
InvalidRows == {i \in DOMAIN rows : ~rows[i].email_ok}

ValidRows == DOMAIN rows \ InvalidRows

\* C17 (as claimed): a mapping file with an unusable address never makes main
\* raise while reading it
C17_InvalidRowsNeverFail ==
  (InvalidRows # {} /\ missing_attachments = <<>>) => ~raised

\* C17 (amended): once the mapping is read, the tasks are the rows with a usable
\* address, in file order and with their files, every row is kept in
\* original_rows, and reading the mapping makes main raise exactly when no row
\* has a usable address
C17_InvalidRowsExcluded ==
  mpc # "read_mapping" =>
    /\ original_rows = rows
    /\ Len(email_tasks) = Cardinality(ValidRows)
    /\ \A k \in Jobs :
          /\ email_tasks[k].email \in ValidRows
          /\ email_tasks[k].files = rows[email_tasks[k].email].files
          /\ \A l \in Jobs : k < l => email_tasks[k].email < email_tasks[l].email
    /\ (raised /\ missing_attachments = <<>>) = (ValidRows = {})

C17_Witness ==
  /\ mpc = "exited"
  /\ InvalidRows # {} /\ ValidRows # {}
  /\ ~raised /\ ~should_exit
  /\ pool_started
  /\ success_count = Cardinality(ValidRows)

\* the names task k refers to that are not files of the input directory
MissingOf(k) == {n \in Range(email_tasks[k].files) : n \notin disk}

\* C18: no name is looked up in the file system more than once; and when main
\* raises for missing attachments the loop has examined every task:
\* missing_attachments has one entry for each task with a missing file, in task
\* order, naming exactly that task's missing files, and not_found_count is the
\* number of distinct missing names
C18_AllInvalidReported ==
  /\ \A n \in Names : isfile_calls[n] <= 1
  /\ (raised /\ missing_attachments # <<>>) =>
       /\ vi = Len(email_tasks) + 1
       /\ \A k \in Jobs :
             MissingOf(k) # {} =>
               \E i \in DOMAIN missing_attachments :
                  /\ missing_attachments[i].row = k
                  /\ Range(missing_attachments[i].files) = MissingOf(k)
       /\ Len(missing_attachments) = Cardinality({k \in Jobs : MissingOf(k) # {}})
       /\ \A i, l \in DOMAIN missing_attachments :
             i < l => missing_attachments[i].row < missing_attachments[l].row
       /\ not_found_count = Cardinality(UNION {MissingOf(k) : k \in Jobs})

\* two tasks name the same missing file: both are reported, one lookup was made
C18_Witness ==
  /\ mpc = "exited" /\ raised
  /\ Len(missing_attachments) = 2
  /\ \E n \in Names :
        /\ n \in MissingOf(1) /\ n \in MissingOf(2)
        /\ isfile_calls[n] = 1
  /\ not_found_count = 1

\* C19 (as claimed): a send attempt that is a retry is made on an open session,
\* the newest one the thread created: the session of the failed attempt was quit
\* by the forced reconnect, so a retry on a session that is not open is a retry
\* on the session on which the failure occurred
C19_RetryOnNewSession ==
  \A w \in Threads :
     (wpc[w] = "send" /\ retries[w] > 0) =>
        (smtp[w] \in open /\ smtp[w] = <<w, nsess[w]>> /\ tl_sends[ThreadLocal(w)] = 0)

\* C20 (as claimed): no connection attempt is started by a thread that reached
\* the connection loop, or came round it again, when the flag was already set
C20_NoConnectAfterFlag ==
  \A j \in Tasks : conn_after[j] = 0

\* C21 (as claimed): when an interrupted run has ended, no session is open
C21_ClosedOnCancel ==
  (mpc = "exited" /\ should_exit) => open = {}

\* C22 (as claimed): a task for which an attachment could not be read or attached
\* makes no send attempt, does not return True and is counted as failed
C22_AttachmentErrorFailsJob ==
  \A j \in Tasks :
     attachment_errors[j] > 0 =>
       /\ send_att[j] = 0
       /\ fresult[j] # "true"
       /\ (mpc = "exited" /\ fstate[j] = "done") => j \in Range(failed_idx)

\* C23: a thread in the connection loop has failed fewer than MAX_RETRIES times
\* in this call; the call returns at the first attempt that succeeds, with the
\* session just opened, stored in the thread's slot; it raises exactly on the
\* failure of attempt MAX_RETRIES, and a failure before that goes round the loop
C23_AcquireAttempts ==
  [][\A w \in Threads :
       /\ wpc[w] = "connect" => cretries[w] < MAX_RETRIES
       /\ (wpc[w] = "connect" /\ wpc'[w] # "connect") =>
            \/ /\ wpc'[w] \in {"send", "retry_loop"}
               /\ smtp'[w] \in open' \ open
               /\ tl_smtp'[w] = smtp'[w]
               /\ faults' = faults
               /\ cretries'[w] = cretries[w]
            \/ /\ open' = open
               /\ faults' = faults - 1
               /\ cretries[w] = MAX_RETRIES - 1
               /\ \/ ctx[w] = "send" /\ wpc'[w] = "idle" /\ fresult'[wjob[w]] = "exc"
                  \/ ctx[w] = "retry" /\ wpc'[w] = "retry_loop"
       /\ (wpc[w] = "connect" /\ wpc'[w] = "connect" /\ cretries'[w] # cretries[w]) =>
            /\ cretries'[w] = cretries[w] + 1
            /\ cretries'[w] < MAX_RETRIES
            /\ faults' = faults - 1
            /\ open' = open
    ]_vars

\* one call raised after MAX_RETRIES failed attempts, another returned the session
\* of its second attempt
C23_Witness ==
  /\ \E i \in Tasks : fresult[i] = "exc" /\ conn_att[i] = MAX_RETRIES /\ send_att[i] = 0
  /\ \E w \in Threads : wpc[w] = "send" /\ cretries[w] = 1 /\ smtp[w] \in open

\* C24: once main has left the ThreadPoolExecutor block, that is from the report
\* on, every submitted future is done or cancelled, every one of them has been
\* yielded by as_completed, the work queue is empty and every pool thread is idle
C24_SummaryAfterAllResults ==
  (pool_started /\ mpc \in {"report", "finally", "exited"}) =>
    /\ \A j \in Range(futures) : fstate[j] \in {"done", "cancelled"}
    /\ ci = Len(futures)
    /\ Len(completed) = Len(futures)
    /\ queue = <<>>
    /\ \A w \in Threads : wpc[w] = "idle" /\ wjob[w] = 0

\* an interrupted run at the report: two futures, one of them begun after the flag
C24_Witness ==
  /\ mpc = "report"
  /\ should_exit
  /\ Len(futures) = 2
  /\ \E i, j \in Range(futures) :
        /\ ~begun_after_flag[i] /\ send_att[i] > 0
        /\ begun_after_flag[j]

\* C25: no task is transmitted more than once: a task has at most one successful
\* send, a task with a successful send has returned True, and no send attempt is
\* made for a task after its successful send
C25_NoDuplicateSend ==
  [][\A j \in Tasks :
       /\ sent_ok[j] <= 1
       /\ sent_ok[j] = 1 => (fstate[j] = "done" /\ fresult[j] = "true")
       /\ sent_ok[j] = 1 => (send_att'[j] = send_att[j] /\ sent_ok'[j] = 1)
    ]_vars

\* after an interrupt: one task sent at its second attempt, the other abandoned
C25_Witness ==
  /\ should_exit
  /\ \E i, j \in Tasks :
        /\ sent_ok[i] = 1 /\ send_att[i] = 2
        /\ fresult[j] = "false" /\ sent_ok[j] = 0
  /\ mpc = "exited"

\* C26 (as claimed): a thread about to call send_message holds a session that is
\* open, one it has not quit
C26_SendOnOpenSession ==
  \A w \in Threads : wpc[w] = "send" => smtp[w] \in open

\* the open sessions created by thread w
OpenOf(w) == {s \in open : s[1] = w}

\* C27: a thread has at most one open session, which is the one stored in its
\* slot, and the number of open sessions is at most max_threads
C27_OneSessionPerWorker ==
  /\ \A w \in Threads : Cardinality(OpenOf(w)) <= 1
  /\ \A s \in open : s[1] \in Threads /\ tl_smtp[s[1]] = s
  /\ Cardinality(open) <= max_threads

\* both threads have an open session, one of them its second
C27_Witness ==
  /\ max_threads = 2
  /\ Cardinality(open) = 2
  /\ \E w \in Threads : nsess[w] = 2 /\ OpenOf(w) = {<<w, 2>>}

\* C28 (as claimed): when a run has ended, a task that ended because
\* get_smtp_connection raised on the acquire before a send attempt made no
\* successful send and fewer than MAX_RETRIES send attempts, is counted once, as
\* failed, with the row it was created from in the report, and every other
\* submitted task has a result
C28_AcquireExhaustionEndsJob ==
  mpc = "exited" =>
    \A j \in Tasks :
       fresult[j] = "exc" =>
         /\ sent_ok[j] = 0
         /\ conn_att[j] >= MAX_RETRIES
         /\ send_att[j] < MAX_RETRIES
         /\ j \notin Range(success_idx)
         /\ Cardinality({i \in DOMAIN failed_idx : failed_idx[i] = j}) = 1
         /\ \A i \in DOMAIN failed_idx : failed_idx[i] = j => report[i] = SourceRow(j)
         /\ \A l \in Range(futures) : fstate[l] = "done"

\* the most connection attempts one task can make: MAX_RETRIES for the first
\* acquire and for each of the forced reconnects; and the most sleeps: one after
\* each failed connection attempt and one before each retry of the send
MaxConnAttempts == MAX_RETRIES * MAX_RETRIES

MaxSleeps == (MAX_RETRIES * MAX_RETRIES - 1) + (MAX_RETRIES - 1)

\* C29: every run ends, whether or not the flag is set, and no task makes more
\* than MAX_RETRIES send attempts, MaxConnAttempts connection attempts or
\* MaxSleeps sleeps
C29_Termination ==
  /\ <>[](mpc = "exited" /\ \A w \in Threads : wpc[w] = "idle")
  /\ [](\A j \in Tasks :
          /\ send_att[j] <= MAX_RETRIES
          /\ conn_att[j] <= MaxConnAttempts
          /\ sleeps[j] <= MaxSleeps)

\* a run that ended after one task made every attempt and every sleep it can make
C29_Witness ==
  /\ mpc = "exited"
  /\ ~should_exit
  /\ \E j \in Tasks :
        /\ send_att[j] = MAX_RETRIES
        /\ conn_att[j] = MaxConnAttempts
        /\ sleeps[j] = MaxSleeps

\* the positions at which task j was counted
CountedAt(j) ==
  {<<"s", i>> : i \in {i \in DOMAIN success_idx : success_idx[i] = j}}
    \cup {<<"f", i>> : i \in {i \in DOMAIN failed_idx : failed_idx[i] = j}}

=============================================================================
